---- MODULE Spec2Model ----
(***************************************************************************)
(* The HVH-PoSt circuit composer, storage-proofs/src/circuit/hvh_post.rs.  *)
(* hvh_post walks the delay (VDF) rounds and then the storage (PoRC)       *)
(* rounds, writing variables, constraints and public inputs into the       *)
(* caller's constraint system.  One action per statement of hvh_post; the  *)
(* gadgets it calls (sloth::decode, porc::porc, constraint::equal,         *)
(* AllocatedNum::alloc / inputize) are operators over the constraint       *)
(* system.                                                                 *)
(***************************************************************************)
EXTENDS Integers, Sequences, FiniteSets, TLC

\* Bounds of the model.
MaxDelay == 2
MaxStorage == 2
MaxSloth == 1

(***************************************************************************)
(* Field elements and Option<E::Fr>.  The scalar field is stood in for by  *)
(* the three-element prime field.                                          *)
(***************************************************************************)
Fr == {0, 1, 2}
Modulus == Cardinality(Fr)
None == <<>>
Some(v) == <<v>>
IsSome(o) == o # None
OptFr == {None} \cup {Some(v) : v \in Fr}

FrAdd(a, b) == (a + b) % Modulus
FrSub(a, b) == (a - b + Modulus) % Modulus
FrMul(a, b) == (a * b) % Modulus
OptMul(a, b) == IF a = None \/ b = None THEN None ELSE Some(FrMul(a[1], b[1]))
OptSub(a, b) == IF a = None \/ b = None THEN None ELSE Some(FrSub(a[1], b[1]))

Min(a, b) == IF a <= b THEN a ELSE b

(***************************************************************************)
(* The constraint system.  kind "test" is a constraint system that         *)
(* evaluates witness closures (proving, TestConstraintSystem); kind        *)
(* "keygen" only records the shape and never evaluates a closure.          *)
(* inputs[1] is the constant ONE.                                          *)
(***************************************************************************)
NewCS(kind) ==
    [kind |-> kind,
     inputs |-> << [name |-> "ONE", value |-> IF kind = "test" THEN Some(1) ELSE None] >>,
     aux |-> <<>>,
     constraints |-> <<>>,
     namespaces |-> <<>>]

num_inputs(c) == Len(c.inputs)
num_aux(c) == Len(c.aux)
num_constraints(c) == Len(c.constraints)

\* TestConstraintSystem::is_satisfied: every constraint evaluates to true
is_satisfied(c) ==
    /\ c.kind = "test"
    /\ \A k \in 1..Len(c.constraints) :
          IsSome(c.constraints[k].lhs) /\ c.constraints[k].lhs = c.constraints[k].rhs

\* An AllocatedNum: the variable and its (optional) value
Unallocated == [variable |-> <<"none", 0>>, value |-> None]

\* A synthesis in progress: the constraint system and the first error, if any.
Running(c) == [cs |-> c, err |-> "none"]

\* cs.namespace(|| label): opens the namespace at `path`
StNamespace(st, path) ==
    IF st.err # "none" THEN st
    ELSE [st EXCEPT !.cs.namespaces = Append(@, path)]

\* cs.alloc(|| name, || value): the closure is evaluated only when the
\* constraint system needs values; an absent value is AssignmentMissing.
StAlloc(st, path, v) ==
    IF st.err # "none" THEN st
    ELSE IF st.cs.kind = "test" /\ v = None
         THEN [st EXCEPT !.err = "AssignmentMissing"]
    ELSE [st EXCEPT !.cs.aux =
             Append(@, [name |-> path,
                        value |-> IF st.cs.kind = "test" THEN v ELSE None])]

\* cs.alloc_input(|| name, || value)
StAllocInput(st, path, v) ==
    IF st.err # "none" THEN st
    ELSE IF st.cs.kind = "test" /\ v = None
         THEN [st EXCEPT !.err = "AssignmentMissing"]
    ELSE [st EXCEPT !.cs.inputs =
             Append(@, [name |-> path,
                        value |-> IF st.cs.kind = "test" THEN v ELSE None])]

\* cs.enforce(|| name, a, b, c) for a constraint that states lhs = rhs over
\* the variables `vars`
StEnforce(st, path, lhs, rhs, vars) ==
    IF st.err # "none" THEN st
    ELSE [st EXCEPT !.cs.constraints =
             Append(@, [name |-> path, lhs |-> lhs, rhs |-> rhs, vars |-> vars])]

LastAux(st) == <<"aux", Len(st.cs.aux)>>
LastInput(st) == <<"input", Len(st.cs.inputs)>>
LastAuxValue(st) == IF st.cs.aux = <<>> THEN None ELSE st.cs.aux[Len(st.cs.aux)].value

\* num::AllocatedNum::alloc(cs, || value): one auxiliary variable "num"
AllocatedNum_alloc(st, ns, v) == StAlloc(st, ns \o "/num", v)

\* AllocatedNum::inputize(cs): one public input, constrained equal to self
AllocatedNum_inputize(st, ns, self) ==
    LET s1 == StAllocInput(st, ns \o "/input variable", self.value)
    IN  StEnforce(s1, ns \o "/enforce input is correct",
                  s1.cs.inputs[Len(s1.cs.inputs)].value, self.value,
                  <<LastInput(s1), self.variable>>)

\* constraint::equal(cs, || label, a, b): one constraint a * 1 = b
constraint_equal(st, path, a, b) ==
    StEnforce(st, path, a.value, b.value, <<a.variable, b.variable>>)

(***************************************************************************)
(* sloth::decode: the delay-function decode gadget.  The encoded value is  *)
(* allocated, then each of `rounds` sequential steps computes c^5 - key    *)
(* with three multiplication constraints and one subtraction constraint.   *)
(***************************************************************************)
\* the value the gadget derives: `rounds` applications of c -> c^5 - key
RECURSIVE sloth_decode_value(_, _, _)
sloth_decode_value(key, c, rounds) ==
    IF rounds = 0 THEN c
    ELSE LET c2 == OptMul(c, c)
             c4 == OptMul(c2, c2)
             c5 == OptMul(c4, c)
         IN  sloth_decode_value(key, OptSub(c5, key), rounds - 1)

\* a * b = out, out a fresh variable
StMul(st, path, a, b) ==
    LET s1 == StAlloc(st, path \o "/product num", OptMul(a.value, b.value))
    IN  StEnforce(s1, path \o "/multiplication constraint",
                  OptMul(a.value, b.value), LastAuxValue(s1),
                  <<a.variable, b.variable, LastAux(s1)>>)

\* a - b = out, out a fresh variable
StSub(st, path, a, b) ==
    LET s1 == StAlloc(st, path \o "/sub num", OptSub(a.value, b.value))
    IN  StEnforce(s1, path \o "/subtraction constraint",
                  OptSub(a.value, b.value), LastAuxValue(s1),
                  <<a.variable, b.variable, LastAux(s1)>>)

Num(st) == [variable |-> LastAux(st), value |-> LastAuxValue(st)]

RECURSIVE sloth_rounds(_, _, _, _, _, _)
sloth_rounds(st, ns, key, c, r, rounds) ==
    IF r = rounds \/ st.err # "none" THEN [st |-> st, out |-> c]
    ELSE LET rns == ns \o "/round " \o ToString(r)
             s2 == StMul(st, rns \o "/c^2", c, c)
             c2 == Num(s2)
             s4 == StMul(s2, rns \o "/c^4", c2, c2)
             c4 == Num(s4)
             s5 == StMul(s4, rns \o "/c^5", c4, c)
             c5 == Num(s5)
             s6 == StSub(s5, rns \o "/c^5 - k", c5, key)
         IN  sloth_rounds(s6, ns, key, Num(s6), r + 1, rounds)

sloth_decode(st, ns, key, ciphertext, rounds) ==
    LET s1 == AllocatedNum_alloc(st, ns \o "/decoded", ciphertext)
    IN  sloth_rounds(s1, ns, key, Num(s1), 0, rounds)

\* constraints and variables one call of the decode gadget writes
SlothConstraints(rounds) == 4 * rounds
SlothAux(rounds) == 1 + 4 * rounds

(***************************************************************************)
(* porc::porc: the storage-inclusion gadget.  For each challenged leaf it  *)
(* allocates and inputizes the commitment, allocates the leaf, walks the   *)
(* authentication path (one sibling variable and one hash constraint per   *)
(* level) and constrains the computed root equal to the commitment.        *)
(***************************************************************************)
\* the combining function of two children
MerkleHash(l, r) == (l + 2 * r + 1) % Modulus
OptHash(l, r) == IF l = None \/ r = None THEN None ELSE Some(MerkleHash(l[1], r[1]))

\* a path element is None or Some(<<sibling, is_right>>)
Sibling(e) == IF e = None THEN None ELSE Some(e[1][1])
IsRight(e) == IF e = None THEN FALSE ELSE e[1][2]

RECURSIVE porc_path(_, _, _, _, _)
porc_path(st, ns, cur, path, k) ==
    IF k > Len(path) \/ st.err # "none" THEN [st |-> st, out |-> cur]
    ELSE LET pns == ns \o "/merkle tree hash " \o ToString(k - 1)
             s1 == AllocatedNum_alloc(st, pns \o "/path element", Sibling(path[k]))
             sib == Num(s1)
             hv == IF IsRight(path[k]) THEN OptHash(sib.value, cur.value)
                                       ELSE OptHash(cur.value, sib.value)
             s2 == StAlloc(s1, pns \o "/computation of hash", hv)
             s3 == StEnforce(s2, pns \o "/hash constraint", hv, LastAuxValue(s2),
                             <<cur.variable, sib.variable, LastAux(s2)>>)
         IN  porc_path(s3, ns, Num(s3), path, k + 1)

RECURSIVE porc_challenges(_, _, _, _, _, _)
porc_challenges(st, ns, challenged_leafs, commitments, paths, k) ==
    IF k > Min(Len(challenged_leafs), Min(Len(commitments), Len(paths)))
       \/ st.err # "none"
    THEN st
    ELSE LET cns == ns \o "/challenge_" \o ToString(k - 1)
             s1 == AllocatedNum_alloc(st, cns \o "/commitment_num", commitments[k])
             rt == Num(s1)
             s2 == AllocatedNum_inputize(s1, cns \o "/commitment input", rt)
             s3 == AllocatedNum_alloc(s2, cns \o "/leaf_num", challenged_leafs[k])
             p  == porc_path(s3, cns, Num(s3), paths[k], 1)
             s4 == constraint_equal(p.st, cns \o "/enforce rt is correct", p.out, rt)
         IN  porc_challenges(s4, ns, challenged_leafs, commitments, paths, k + 1)

porc(st, challenged_leafs, commitments, paths, ns) ==
    porc_challenges(st, ns, challenged_leafs, commitments, paths, 1)

\* public inputs one call of the inclusion gadget marks for `n` challenged
\* leafs with paths of `depth` levels
PorcInputs(n, depth) == n

(***************************************************************************)
(* Instances.  An HvhPost instance holds the delay key, the per-round      *)
(* encoded values (vdf_ys) and expected pre-images (vdf_xs), the sloth     *)
(* round count, and the three per-round storage collections.               *)
(***************************************************************************)
HvhPost(key, ys, xs, rounds, leafs_vec, comms_vec, paths_vec) ==
    [vdf_key |-> key, vdf_ys |-> ys, vdf_xs |-> xs, vdf_sloth_rounds |-> rounds,
     challenged_leafs_vec |-> leafs_vec, commitments_vec |-> comms_vec,
     paths_vec |-> paths_vec]

SeqsUpTo(S, n) == UNION {[1..k -> S] : k \in 0..n}
DropLast(s) == SubSeq(s, 1, Len(s) - 1)

\* the root an authentication path reduces a leaf to
RECURSIVE PathRoot(_, _, _)
PathRoot(cur, path, k) ==
    IF k > Len(path) THEN cur
    ELSE PathRoot(IF path[k][2] THEN MerkleHash(path[k][1], cur)
                                ELSE MerkleHash(cur, path[k][1]),
                  path, k + 1)

\* one storage round whose every leaf is included under its commitment
ValidRound(ls, ps) ==
    [leafs |-> [k \in 1..Len(ls) |-> Some(ls[k])],
     commitments |-> [k \in 1..Len(ls) |-> Some(PathRoot(ls[k], ps[k], 1))],
     paths |-> [k \in 1..Len(ls) |-> [l \in 1..Len(ps[k]) |-> Some(ps[k][l])]]]

\* the two round shapes: one leaf under a two-level path, two leafs under
\* one-level paths
RoundShapes ==
    { ValidRound(<<1>>, << << <<2, TRUE>>, <<0, FALSE>> >> >>),
      ValidRound(<<2, 0>>, << << <<1, FALSE>> >>, << <<2, TRUE>> >> >>) }

RoundKinds == {"valid", "bad_commitment", "bad_sibling",
               "absent_leaf", "absent_commitment", "absent_sibling"}

\* a round with its last challenge corrupted or left without a value
Variant(kind, r) ==
    LET n == Len(r.leafs) IN
    CASE kind = "valid" -> r
      [] kind = "bad_commitment" ->
            [r EXCEPT !.commitments[n] = Some(FrAdd(@[1], 1))]
      [] kind = "bad_sibling" ->
            [r EXCEPT !.paths[n][1] = Some(<<FrAdd(@[1][1], 1), @[1][2]>>)]
      [] kind = "absent_leaf" -> [r EXCEPT !.leafs[n] = None]
      [] kind = "absent_commitment" -> [r EXCEPT !.commitments[n] = None]
      [] kind = "absent_sibling" -> [r EXCEPT !.paths[n][1] = None]

StorageRounds == {Variant(kind, r) : kind \in RoundKinds, r \in RoundShapes}

\* is every leaf of the round present and included under its commitment
RoundPresent(leafs, comms, paths) ==
    \A k \in 1..Len(leafs) :
        /\ leafs[k] # None /\ comms[k] # None
        /\ \A l \in 1..Len(paths[k]) : paths[k][l] # None
RoundValid(leafs, comms, paths) ==
    /\ RoundPresent(leafs, comms, paths)
    /\ \A k \in 1..Len(leafs) :
          comms[k] = Some(PathRoot(leafs[k][1], [l \in 1..Len(paths[k]) |-> paths[k][l][1]], 1))

\* a delay chain of n rounds whose every pre-image is the decode of its y
ChainYs(n) == [k \in 1..n |-> Some(k % Modulus)]
ChainXs(n, key, rounds) == [k \in 1..n |-> sloth_decode_value(key, ChainYs(n)[k], rounds)]

OneValidRound == ValidRound(<<1>>, << << <<2, TRUE>>, <<0, FALSE>> >> >>)

\* instances that vary the delay phase, over one valid storage round
DelayInstances ==
    { HvhPost(key, ys, xs, rounds,
              <<OneValidRound.leafs>>, <<OneValidRound.commitments>>, <<OneValidRound.paths>>) :
        key \in OptFr, ys \in SeqsUpTo(OptFr, MaxDelay),
        xs \in SeqsUpTo(OptFr, MaxDelay), rounds \in 0..MaxSloth }

Truncations == {"none", "leafs", "commitments", "paths"}
Cut(which, what, s) == IF which = what /\ s # <<>> THEN DropLast(s) ELSE s

\* instances that vary the storage phase, after a well-formed delay chain
StorageInstances ==
    { HvhPost(Some(1), ChainYs(n), ChainXs(n, Some(1), 1), 1,
              Cut(t, "leafs", [j \in 1..Len(rs) |-> rs[j].leafs]),
              Cut(t, "commitments", [j \in 1..Len(rs) |-> rs[j].commitments]),
              Cut(t, "paths", [j \in 1..Len(rs) |-> rs[j].paths])) :
        n \in 0..1, rs \in SeqsUpTo(StorageRounds, MaxStorage), t \in Truncations }

\* shape-only instances: every witness value absent
Blank(inst) ==
    [vdf_key |-> None,
     vdf_ys |-> [k \in 1..Len(inst.vdf_ys) |-> None],
     vdf_xs |-> [k \in 1..Len(inst.vdf_xs) |-> None],
     vdf_sloth_rounds |-> inst.vdf_sloth_rounds,
     challenged_leafs_vec |->
        [j \in 1..Len(inst.challenged_leafs_vec) |->
            [k \in 1..Len(inst.challenged_leafs_vec[j]) |-> None]],
     commitments_vec |->
        [j \in 1..Len(inst.commitments_vec) |->
            [k \in 1..Len(inst.commitments_vec[j]) |-> None]],
     paths_vec |->
        [j \in 1..Len(inst.paths_vec) |->
            [k \in 1..Len(inst.paths_vec[j]) |->
                [l \in 1..Len(inst.paths_vec[j][k]) |-> None]]]]

ShapeInstances == {Blank(inst) : inst \in DelayInstances \cup StorageInstances}

VARIABLES
    instance,     \* the HvhPost instance being synthesized
    cs,           \* the caller's constraint system
    pc,           \* the statement of hvh_post to run next
    i,            \* the round index of the running loop
    vdf_key,      \* the allocated delay key
    decoded,      \* this round's decoded value
    x_alloc,      \* this round's allocated pre-image
    result,       \* "none" while running, then "Ok", "AssignmentMissing" or "panic"
    calls         \* the gadget calls made so far, in order

vars == <<instance, cs, pc, i, vdf_key, decoded, x_alloc, result, calls>>

Call(op, round, args, ret) == [op |-> op, round |-> round, args |-> args, ret |-> ret]

Init ==
    /\ \/ /\ instance \in DelayInstances \cup StorageInstances
          /\ cs = NewCS("test")
       \/ /\ instance \in ShapeInstances
          /\ cs = NewCS("keygen")
    /\ pc = "start"
    /\ i = 0
    /\ vdf_key = Unallocated
    /\ decoded = Unallocated
    /\ x_alloc = Unallocated
    /\ result = "none"
    /\ calls = <<>>

\* the rounds the zipped iterators yield
NumVdfRounds == Min(Len(instance.vdf_ys), Len(instance.vdf_xs))
NumPorcRounds ==
    Min(Len(instance.challenged_leafs_vec),
        Min(Len(instance.commitments_vec), Len(instance.paths_vec)))

VdfRoundLabel_NoIndex(n) == "vdf_verification_round_"

VdfRoundLabel(n) == "vdf_verification_round_" \o ToString(n)
PorcRoundLabel(n) == "porc_verification_round_" \o ToString(n)

\* a step either continues at `next` or returns its error
Continue(st, next) ==
    /\ cs' = st.cs
    /\ IF st.err = "none"
       THEN pc' = next /\ result' = result
       ELSE pc' = "done" /\ result' = st.err

\* assert_eq!(vdf_xs.len(), vdf_ys.len())
AssertVdfLens ==
    /\ pc = "start"
    /\ IF Len(instance.vdf_xs) = Len(instance.vdf_ys)
       THEN pc' = "alloc_key" /\ result' = result
       ELSE pc' = "done" /\ result' = "panic"
    /\ UNCHANGED <<instance, cs, i, vdf_key, decoded, x_alloc, calls>>

\* let vdf_key = AllocatedNum::alloc(cs.namespace(|| "vdf_key"), ...)?
alloc_vdf_key_inputized(st) ==
    LET s1 == AllocatedNum_alloc(StNamespace(st, "vdf_key"), "vdf_key", instance.vdf_key)
    IN  AllocatedNum_inputize(s1, "vdf_key/input", Num(s1))

alloc_vdf_key(st) ==
    AllocatedNum_alloc(StNamespace(st, "vdf_key"), "vdf_key", instance.vdf_key)

AllocVdfKey ==
    /\ pc = "alloc_key"
    /\ LET st == alloc_vdf_key(Running(cs))
       IN  /\ Continue(st, "vdf_round")
           /\ vdf_key' = IF st.err = "none" THEN Num(st) ELSE vdf_key
           /\ calls' = Append(calls, Call("alloc_key", 0, <<instance.vdf_key>>, LastAux(st)))
    /\ i' = 0
    /\ UNCHANGED <<instance, decoded, x_alloc>>

\* the arguments of this round's decode call
DecodeKey == vdf_key
DecodeY(n) == instance.vdf_ys[n + 1]

DecodeRounds_LoopIndex == i

DecodeRounds == instance.vdf_sloth_rounds

\* loop head, round namespace, let decoded = sloth::decode(...)?
SlothDecode ==
    /\ pc = "vdf_round"
    /\ i < NumVdfRounds
    /\ LET ns == VdfRoundLabel(i)
           r == sloth_decode(
                    StNamespace(StNamespace(Running(cs), ns), ns \o "/sloth_decode"),
                    ns \o "/sloth_decode", DecodeKey, DecodeY(i), DecodeRounds)
       IN  /\ Continue(r.st, "alloc_x")
           /\ decoded' = IF r.st.err = "none" THEN r.out ELSE decoded
           /\ calls' = Append(calls,
                  Call("decode", i,
                       <<DecodeKey.variable, DecodeY(i), DecodeRounds>>,
                       r.out.variable))
    /\ UNCHANGED <<instance, i, vdf_key, x_alloc>>

XValue_OrDefault(n) ==
    IF instance.vdf_xs[n + 1] = None THEN Some(0) ELSE instance.vdf_xs[n + 1]

XValue_FromYs(n) == instance.vdf_ys[n + 1]

\* the witness value of this round's pre-image
XValue(n) == instance.vdf_xs[n + 1]

\* let x_alloc = AllocatedNum::alloc(cs.namespace(|| "x"), ...)?
AllocX ==
    /\ pc = "alloc_x"
    /\ LET ns == VdfRoundLabel(i) \o "/x"
           st == AllocatedNum_alloc(StNamespace(Running(cs), ns), ns, XValue(i))
       IN  /\ Continue(st, "equality")
           /\ x_alloc' = IF st.err = "none" THEN Num(st) ELSE x_alloc
           /\ calls' = Append(calls, Call("alloc_x", i, <<XValue(i)>>, LastAux(st)))
    /\ UNCHANGED <<instance, i, vdf_key, decoded>>

EqualityArgs_XTwice == <<x_alloc, x_alloc>>

\* constraint::equal(&mut cs, || "equality", &x_alloc, &decoded)
EqualityArgs == <<x_alloc, decoded>>

equality_step_unless_equal(st, n) ==
    IF EqualityArgs[1].value = EqualityArgs[2].value /\ IsSome(EqualityArgs[1].value)
    THEN st
    ELSE constraint_equal(st, VdfRoundLabel(n) \o "/equality",
                          EqualityArgs[1], EqualityArgs[2])

equality_step(st, n) ==
    constraint_equal(st, VdfRoundLabel(n) \o "/equality", EqualityArgs[1], EqualityArgs[2])

Equality ==
    /\ pc = "equality"
    /\ LET st == equality_step(Running(cs), i)
       IN  /\ Continue(st, "vdf_result")
           /\ calls' = Append(calls,
                  Call("equality", i,
                       <<EqualityArgs[1].variable, EqualityArgs[2].variable>>,
                       <<"constraint", Len(st.cs.constraints)>>))
    /\ UNCHANGED <<instance, i, vdf_key, decoded, x_alloc>>

InputizedNum_X == x_alloc

\* decoded.inputize(cs.namespace(|| "vdf_result"))?
InputizedNum == decoded

VdfResult ==
    /\ pc = "vdf_result"
    /\ LET ns == VdfRoundLabel(i) \o "/vdf_result"
           st == AllocatedNum_inputize(StNamespace(Running(cs), ns), ns, InputizedNum)
       IN  /\ Continue(st, "vdf_round")
           /\ calls' = Append(calls,
                  Call("inputize", i, <<InputizedNum.variable>>, LastInput(st)))
    /\ i' = i + 1
    /\ UNCHANGED <<instance, vdf_key, decoded, x_alloc>>

\* end of the delay loop; the two assert_eq! on the storage collections
AssertPorcLens ==
    /\ pc = "vdf_round"
    /\ i >= NumVdfRounds
    /\ IF /\ Len(instance.challenged_leafs_vec) = Len(instance.commitments_vec)
          /\ Len(instance.paths_vec) = Len(instance.commitments_vec)
       THEN pc' = "porc_round" /\ result' = result
       ELSE pc' = "done" /\ result' = "panic"
    /\ i' = 0
    /\ UNCHANGED <<instance, cs, vdf_key, decoded, x_alloc, calls>>

PorcArgs_FirstRound(n) ==
    <<instance.challenged_leafs_vec[1], instance.commitments_vec[1], instance.paths_vec[1]>>

\* the arguments of this round's call of the inclusion gadget
PorcArgs(n) ==
    <<instance.challenged_leafs_vec[n + 1], instance.commitments_vec[n + 1],
      instance.paths_vec[n + 1]>>

\* loop head, round namespace, porc::porc(&mut cs, params, ...)?
PorcRound ==
    /\ pc = "porc_round"
    /\ i < NumPorcRounds
    /\ LET ns == PorcRoundLabel(i)
           a == PorcArgs(i)
           st == porc(StNamespace(Running(cs), ns), a[1], a[2], a[3], ns)
       IN  /\ Continue(st, "porc_round")
           /\ calls' = Append(calls, Call("porc", i, a, <<>>))
    /\ i' = i + 1
    /\ UNCHANGED <<instance, vdf_key, decoded, x_alloc>>

\* Ok(())
ReturnOk ==
    /\ pc = "porc_round"
    /\ i >= NumPorcRounds
    /\ pc' = "done"
    /\ result' = "Ok"
    /\ UNCHANGED <<instance, cs, i, vdf_key, decoded, x_alloc, calls>>

Next ==
    \/ AssertVdfLens
    \/ AllocVdfKey
    \/ SlothDecode
    \/ AllocX
    \/ Equality
    \/ VdfResult
    \/ AssertPorcLens
    \/ PorcRound
    \/ ReturnOk

Spec == Init /\ [][Next]_vars

(***************************************************************************)
(* Properties.                                                             *)
(***************************************************************************)
Concrete == cs.kind = "test"
VdfLensEqual == Len(instance.vdf_xs) = Len(instance.vdf_ys)
PorcLensEqual ==
    /\ Len(instance.challenged_leafs_vec) = Len(instance.commitments_vec)
    /\ Len(instance.paths_vec) = Len(instance.commitments_vec)
N == Len(instance.vdf_ys)
M == Len(instance.commitments_vec)

\* the value sloth::decode derives for round n from (vdf_key, vdf_ys[n], rounds)
ExpectedDecode(n) ==
    sloth_decode_value(instance.vdf_key, instance.vdf_ys[n + 1], instance.vdf_sloth_rounds)

\* the k-th call of `op` for round n, and what it returned
CallOf(op, n) == CHOOSE k \in 1..Len(calls) : calls[k].op = op /\ calls[k].round = n
HasCall(op, n) == \E k \in 1..Len(calls) : calls[k].op = op /\ calls[k].round = n
Ret(op, n) == calls[CallOf(op, n)].ret

HasConstraint(name, vs) ==
    \E k \in 1..Len(cs.constraints) :
        cs.constraints[k].name = name /\ cs.constraints[k].vars = vs

RECURSIVE SumTo(_, _)
SumTo(f, n) == IF n = 0 THEN 0 ELSE f[n] + SumTo(f, n - 1)

\* per storage round: leafs, and the levels of all its paths
RoundLeafs(j) == Len(instance.challenged_leafs_vec[j])
RoundLevels(j) ==
    SumTo([k \in 1..Len(instance.paths_vec[j]) |-> Len(instance.paths_vec[j][k])],
          Len(instance.paths_vec[j]))
RoundConstraints(j) == 2 * RoundLeafs(j) + RoundLevels(j)
RoundAux(j) == 2 * RoundLeafs(j) + 2 * RoundLevels(j)

(* C1: after hvh_post returns Ok for N delay rounds, public input 1 + n is,
   for every round n in 0..N-1, the input made from the variable sloth::decode
   returned in round n (not from the allocated x), it carries the decoded value
   of vdf_ys[n], and the N entries are in round order. *)
C1_DecodedOutputsArePublic ==
    result = "Ok" =>
        \A n \in 0..(N - 1) :
            /\ 2 + n <= Len(cs.inputs)
            /\ cs.inputs[2 + n].name = VdfRoundLabel(n) \o "/vdf_result/input variable"
            /\ Concrete => cs.inputs[2 + n].value = ExpectedDecode(n)
            /\ HasCall("decode", n) /\ HasCall("alloc_x", n)
            /\ Ret("decode", n) # Ret("alloc_x", n)
            /\ HasConstraint(VdfRoundLabel(n) \o "/vdf_result/enforce input is correct",
                             << <<"input", 2 + n>>, Ret("decode", n) >>)

C1_Witness ==
    /\ result = "Ok" /\ Concrete /\ N = 2
    /\ instance.vdf_xs[1] # ExpectedDecode(0)
    /\ cs.inputs[2].value = ExpectedDecode(0)
    /\ cs.inputs[3].value = ExpectedDecode(1)

(* C2: every delay round adds an equality constraint between the allocated
   vdf_xs[n] and the value decoded from (vdf_key, vdf_ys[n], rounds); when in
   some round the supplied x differs from the decoded value, the constraint
   system hvh_post returns is not satisfied, whatever the other rounds hold. *)
C2_ChainSoundness ==
    result = "Ok" =>
        /\ \A n \in 0..(N - 1) :
              HasConstraint(VdfRoundLabel(n) \o "/equality",
                            <<Ret("alloc_x", n), Ret("decode", n)>>)
        /\ (Concrete /\ \E n \in 0..(N - 1) : instance.vdf_xs[n + 1] # ExpectedDecode(n))
              => ~is_satisfied(cs)

C2_Witness ==
    /\ result = "Ok" /\ Concrete /\ N = 2
    /\ instance.vdf_xs[1] = ExpectedDecode(0)
    /\ instance.vdf_xs[2] # ExpectedDecode(1)
    /\ ~is_satisfied(cs)

\* every value present, every x the decode of its y, every storage round valid
WellFormed ==
    /\ VdfLensEqual /\ PorcLensEqual
    /\ instance.vdf_key # None
    /\ \A n \in 0..(N - 1) :
          /\ instance.vdf_ys[n + 1] # None
          /\ instance.vdf_xs[n + 1] = ExpectedDecode(n)
    /\ \A j \in 1..M :
          RoundValid(instance.challenged_leafs_vec[j], instance.commitments_vec[j],
                     instance.paths_vec[j])

(* C3: for a well-formed witness (every value present, every vdf_xs[n] the
   decode of vdf_ys[n], every storage round valid) no step of the synthesis
   fails, and it ends returning Ok with a satisfied constraint system, also
   when the delay and storage round counts differ. *)
C3_WellFormedIsSatisfied ==
    (Concrete /\ WellFormed) =>
        /\ result \in {"none", "Ok"}
        /\ pc # "done" => result = "none"
        /\ pc = "done" => result = "Ok" /\ is_satisfied(cs)

C3_Witness ==
    /\ Concrete /\ WellFormed /\ pc = "done" /\ result = "Ok" /\ is_satisfied(cs)
    /\ N = 2 /\ M = 1

\* the names of the public inputs hvh_post and the inclusion gadget make
PorcInputNames(j) ==
    [k \in 1..RoundLeafs(j) |->
        PorcRoundLabel(j - 1) \o "/challenge_" \o ToString(k - 1)
            \o "/commitment input/input variable"]
RECURSIVE PorcInputNamesUpTo(_)
PorcInputNamesUpTo(j) ==
    IF j = 0 THEN <<>> ELSE PorcInputNamesUpTo(j - 1) \o PorcInputNames(j)
ExpectedInputNames ==
    <<"ONE">> \o [n \in 1..N |-> VdfRoundLabel(n - 1) \o "/vdf_result/input variable"]
              \o PorcInputNamesUpTo(M)

(* C4: after a successful synthesis public input 0 is still the constant ONE
   and there are 1 + N + (the inputs of the inclusion gadget over the M
   storage rounds) public inputs: the composer contributes one per delay
   round, in positions 1..N, and none for the delay key or for x. *)
C4_PublicInputCount ==
    result = "Ok" =>
        /\ cs.inputs[1].name = "ONE"
        /\ Concrete => cs.inputs[1].value = Some(1)
        /\ num_inputs(cs) =
              1 + N + SumTo([j \in 1..M |-> PorcInputs(RoundLeafs(j), 0)], M)
        /\ [k \in 1..Len(cs.inputs) |-> cs.inputs[k].name] = ExpectedInputNames

C4_Witness ==
    /\ result = "Ok" /\ N = 1 /\ M = 2
    /\ RoundLeafs(1) = 2
    /\ num_inputs(cs) = 2 + RoundLeafs(1) + RoundLeafs(2)

(* C5: an instance with len(vdf_ys) # len(vdf_xs), or whose three storage
   collections differ in length, is rejected with a panic before any variable
   is allocated, any constraint is added or any public input is marked. *)
C5_RejectedBeforeSynthesis ==
    (~VdfLensEqual \/ ~PorcLensEqual) =>
        /\ cs = NewCS(cs.kind)
        /\ pc = "done" => result = "panic"

\* the steps of a synthesis in program order, each with whether the witness
\* value it needs is present
NumSteps == 1 + 4 * NumVdfRounds + (IF PorcLensEqual THEN NumPorcRounds ELSE 0)
ExpectedSteps ==
    [k \in 1..NumSteps |->
        IF k = 1
        THEN [op |-> "alloc_key", round |-> 0, present |-> instance.vdf_key # None]
        ELSE IF k <= 1 + 4 * NumVdfRounds
        THEN LET n == (k - 2) \div 4
                 t == (k - 2) % 4
             IN  CASE t = 0 -> [op |-> "decode", round |-> n,
                                present |-> instance.vdf_ys[n + 1] # None]
                   [] t = 1 -> [op |-> "alloc_x", round |-> n,
                                present |-> instance.vdf_xs[n + 1] # None]
                   [] t = 2 -> [op |-> "equality", round |-> n, present |-> TRUE]
                   [] t = 3 -> [op |-> "inputize", round |-> n, present |-> TRUE]
        ELSE LET j == k - 1 - 4 * NumVdfRounds
             IN  [op |-> "porc", round |-> j - 1,
                  present |-> RoundPresent(instance.challenged_leafs_vec[j],
                                           instance.commitments_vec[j],
                                           instance.paths_vec[j])]]
HasAbsent == \E k \in 1..NumSteps : ~ExpectedSteps[k].present
FirstAbsent == CHOOSE k \in 1..NumSteps :
                  /\ ~ExpectedSteps[k].present
                  /\ \A h \in 1..(k - 1) : ExpectedSteps[h].present

IsPrefix(s, t) == Len(s) <= Len(t) /\ \A k \in 1..Len(s) : s[k] = t[k]

AllValuesSome(seq) == \A k \in 1..Len(seq) : IsSome(seq[k].value)

FailFastState ==
    /\ (Concrete /\ VdfLensEqual /\ HasAbsent /\ pc = "done") =>
          /\ result = "AssignmentMissing"
          /\ Len(calls) = FirstAbsent
          /\ calls[FirstAbsent].op = ExpectedSteps[FirstAbsent].op
          /\ calls[FirstAbsent].round = ExpectedSteps[FirstAbsent].round
    /\ result = "AssignmentMissing" =>
          /\ Concrete /\ HasAbsent /\ pc = "done"
    /\ (Concrete /\ result = "Ok") =>
          /\ ~HasAbsent
          /\ AllValuesSome(cs.aux) /\ AllValuesSome(cs.inputs)
          /\ \A n \in 0..(N - 1) :
                cs.aux[Ret("alloc_x", n)[2]].value = instance.vdf_xs[n + 1]

NoRollback ==
    /\ result = "none"
    /\ IsPrefix(cs.aux, cs'.aux)
    /\ IsPrefix(cs.constraints, cs'.constraints)
    /\ IsPrefix(cs.inputs, cs'.inputs)
    /\ IsPrefix(cs.namespaces, cs'.namespaces)

(* C6: when values are required and vdf_key, a vdf_ys[n] or vdf_xs[n], or a
   value of a storage round is absent, hvh_post returns AssignmentMissing from
   the first step that needs an absent value and no step runs once a result
   is returned; the constraint system keeps everything written before (no
   step removes anything); and Ok is never returned for an instance with an absent value,
   nor with a value other than the supplied one in a variable. *)
C6_FailFast == []FailFastState /\ [][NoRollback]_vars

C6_Witness ==
    /\ Concrete /\ result = "AssignmentMissing" /\ N = 2
    /\ instance.vdf_key # None /\ instance.vdf_ys[1] # None /\ instance.vdf_xs[1] # None
    /\ instance.vdf_ys[2] # None /\ instance.vdf_xs[2] = None
    /\ Len(calls) = 7 /\ num_aux(cs) > 1 /\ num_inputs(cs) = 2

\* the counts a synthesis of this shape produces
ShapeCounts ==
    [constraints |-> N * (SlothConstraints(instance.vdf_sloth_rounds) + 2)
                        + SumTo([j \in 1..M |-> RoundConstraints(j)], M),
     aux |-> 1 + N * (SlothAux(instance.vdf_sloth_rounds) + 1)
                + SumTo([j \in 1..M |-> RoundAux(j)], M),
     inputs |-> 1 + N + SumTo([j \in 1..M |-> RoundLeafs(j)], M)]

(* C7: the numbers of constraints, allocated variables and public inputs of a
   successful synthesis are a function of the instance's shape alone (delay
   rounds, sloth rounds, storage rounds and their leaf and path lengths):
   whatever the witness values, and also in a shape-only synthesis, they are
   the counts ShapeCounts gives for the shape. *)
C7_ShapeOnlyCounts ==
    result = "Ok" =>
        [constraints |-> num_constraints(cs), aux |-> num_aux(cs),
         inputs |-> num_inputs(cs)] = ShapeCounts

C7_Witness ==
    /\ result = "Ok" /\ Concrete /\ ~is_satisfied(cs) /\ N = 2 /\ M = 1
    /\ instance.vdf_xs[1] = ExpectedDecode(0)
    /\ instance.vdf_xs[2] # ExpectedDecode(1)
    /\ num_constraints(cs) = ShapeCounts.constraints

\* all storage rounds have the leaf count and path lengths of the first
UniformStorage ==
    \A j \in 1..M :
        /\ RoundLeafs(j) = RoundLeafs(1)
        /\ [k \in 1..Len(instance.paths_vec[j]) |-> Len(instance.paths_vec[j][k])]
              = [k \in 1..Len(instance.paths_vec[1]) |-> Len(instance.paths_vec[1][k])]
DelayRoundCost == SlothConstraints(instance.vdf_sloth_rounds) + 2
StorageRoundCost == IF M = 0 THEN 0 ELSE RoundConstraints(1)

(* C8: with the per-round shape fixed, each finished delay round has added
   exactly d constraints and each finished storage round exactly s: at the
   head of delay round n the count is n*d, at the head of storage round j it
   is N*d + j*s, and after success it is N*d + M*s. *)
C8_LinearConstraintCount ==
    /\ pc = "vdf_round" => num_constraints(cs) = i * DelayRoundCost
    /\ (pc = "porc_round" /\ UniformStorage) =>
          num_constraints(cs) = N * DelayRoundCost + i * StorageRoundCost
    /\ (result = "Ok" /\ UniformStorage) =>
          num_constraints(cs) = N * DelayRoundCost + M * StorageRoundCost

C8_Witness ==
    /\ result = "Ok" /\ N = 1 /\ M = 2 /\ UniformStorage
    /\ instance.vdf_sloth_rounds = 1
    /\ num_constraints(cs) = DelayRoundCost + 2 * StorageRoundCost

(* C9: the calls hvh_post makes are, in order, one allocation of the delay
   key, then for each delay round 0..N-1 decode, allocate x, equality,
   inputize, then for each storage round 0..M-1 one call of the inclusion
   gadget; every decode call is passed the one key variable, the equality and
   inputize of a round use that round's variables, and storage round j is
   passed challenged_leafs_vec[j], commitments_vec[j], paths_vec[j]. *)
C9_SequentialWalk ==
    /\ Len(calls) <= NumSteps
    /\ \A k \in 1..Len(calls) :
          /\ calls[k].op = ExpectedSteps[k].op
          /\ calls[k].round = ExpectedSteps[k].round
          /\ calls[k].op = "decode" =>
                /\ calls[1].op = "alloc_key"
                /\ calls[k].args[1] = calls[1].ret
                /\ calls[k].args[2] = instance.vdf_ys[calls[k].round + 1]
          /\ calls[k].op = "equality" => calls[k].args = <<calls[k - 1].ret, calls[k - 2].ret>>
          /\ calls[k].op = "inputize" => calls[k].args = <<calls[k - 3].ret>>
          /\ calls[k].op = "porc" =>
                /\ calls[k].args[1] = instance.challenged_leafs_vec[calls[k].round + 1]
                /\ calls[k].args[2] = instance.commitments_vec[calls[k].round + 1]
                /\ calls[k].args[3] = instance.paths_vec[calls[k].round + 1]
    /\ result = "Ok" => Len(calls) = NumSteps
    /\ pc \in {"start", "alloc_key"} => calls = <<>>

C9_Witness ==
    /\ result = "Ok" /\ N = 1 /\ M = 2
    /\ instance.challenged_leafs_vec[1] # instance.challenged_leafs_vec[2]
    /\ Len(calls) = 7
    /\ calls[7].args[1] = instance.challenged_leafs_vec[2]

Distinct(seq) == \A a, b \in 1..Len(seq) : a # b => seq[a] # seq[b]
Names(seq) == [k \in 1..Len(seq) |-> seq[k].name]

(* C10: the namespace paths hvh_post opens ("vdf_key", each
   "vdf_verification_round_i" with its children "sloth_decode", "x" and
   "vdf_result", each "porc_verification_round_j") are pairwise distinct, and
   so are the names of all variables, constraints and public inputs written
   under them. *)
C10_NamespacesDistinct ==
    /\ Distinct(cs.namespaces)
    /\ Distinct(Names(cs.aux) \o Names(cs.constraints) \o Names(cs.inputs)
                    \o cs.namespaces)

C10_Witness ==
    /\ result = "Ok" /\ N = 2 /\ M = 1
    /\ Len(cs.namespaces) = 1 + 4 * N + M
====
